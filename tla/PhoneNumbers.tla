---------------------------- MODULE PhoneNumbers ----------------------------
(***************************************************************************)
(* Tracking numbers: PhoneNumbersService, TelnyxProvisioningService and    *)
(* CampaignsService.assignPhoneNumber (apps/api/src/phone-numbers,         *)
(* apps/api/src/routing/campaigns.service.ts).                             *)
(*                                                                         *)
(* A provision request runs through find, order, poll, create and usage,   *)
(* one await each, and nothing holds the number in between: two requests,  *)
(* of two workspaces, may work on one number.  Every await may throw, and  *)
(* the steps already taken stay.  The handlers that read and then update   *)
(* one row (rename, release, assign) are one step each, because no         *)
(* statement of the program deletes a number or a campaign or moves one to *)
(* another workspace, so that what they checked cannot change under them.  *)
(***************************************************************************)
EXTENDS UsageRecords

CONSTANTS
    Workspaces,
    Numbers,        \* numbers on sale at the provider
    Campaigns,
    CampaignOwner,  \* the workspace of each campaign
    Requests,       \* provision requests that may be in flight at once
    MaxPolls        \* maxAttempts of the poll for the ordered number

ASSUME NumbersAssumption ==
    /\ CampaignOwner \in [Campaigns -> Workspaces]
    /\ MaxPolls \in Nat \ {0}

NULL == "null"
ASSUME NullAssumption == NULL \notin Workspaces /\ NULL \notin Campaigns

VARIABLES
    phone,    \* the row of each number, or NoPhone
    account,  \* provider: what our account holds of each number
    pc, req, polls   \* the provision requests in flight

numberVars == <<phone, account, pc, req, polls>>

PhoneNumberStatus == {"ACTIVE", "RELEASED"}

Phone == [status : PhoneNumberStatus, owner : Workspaces,
          campaign : Campaigns \cup {NULL}]

NoPhone == [status |-> "absent", owner |-> NULL, campaign |-> NULL]

Stored(n) == phone[n].status # "absent"

\* "astray": bought, but bound to no connection or to another one.
Account == {"none", "ordered", "ours", "astray"}

ProvisionSteps == {"idle", "order", "poll", "create", "usage"}

Request == [ws : Workspaces, num : Numbers]

NoRequest == [ws |-> NULL, num |-> NULL]

NumbersTypeOK ==
    /\ phone \in [Numbers -> Phone \cup {NoPhone}]
    /\ account \in [Numbers -> Account]
    /\ pc \in [Requests -> ProvisionSteps]
    /\ req \in [Requests -> Request \cup {NoRequest}]
    /\ polls \in [Requests -> 0..MaxPolls]

NumbersInit ==
    /\ phone = [n \in Numbers |-> NoPhone]
    /\ account = [n \in Numbers |-> "none"]
    /\ pc = [r \in Requests |-> "idle"]
    /\ req = [r \in Requests |-> NoRequest]
    /\ polls = [r \in Requests |-> 0]

-----------------------------------------------------------------------------
(* provisionNumber.                                                        *)

Num(r) == req[r].num

GoTo(r, step) == pc' = [pc EXCEPT ![r] = step]

End(r) ==
    /\ GoTo(r, "idle")
    /\ req' = [req EXCEPT ![r] = NoRequest]
    /\ polls' = [polls EXCEPT ![r] = 0]

\* A number that is stored, whatever its status, is a Conflict.
find(r, w, n) ==
    /\ pc[r] = "idle"
    /\ ~Stored(n)
    /\ GoTo(r, "order")
    /\ req' = [req EXCEPT ![r] = [ws |-> w, num |-> n]]
    /\ UNCHANGED <<phone, account, polls, usage>>

Bought(n) ==
    [account EXCEPT ![n] = IF account[n] = "none" THEN "ordered" ELSE @]

numberOrder(r) ==
    /\ pc[r] = "order"
    /\ account' = Bought(Num(r))
    /\ GoTo(r, "poll")
    /\ UNCHANGED <<phone, req, polls, usage>>

\* The order is refused, or placed and its answer lost.
numberOrderThrows(r) ==
    /\ pc[r] = "order"
    /\ account' \in {account, Bought(Num(r))}
    /\ End(r)
    /\ UNCHANGED <<phone, usage>>

\* Mutant: the connection of the listed number is not compared.
pollFound_AnyConnection(r) ==
    /\ pc[r] = "poll"
    /\ account[Num(r)] \in {"ours", "astray"}
    /\ GoTo(r, "create")
    /\ UNCHANGED <<phone, account, req, polls, usage>>

pollFound(r) ==
    /\ pc[r] = "poll"
    /\ account[Num(r)] = "ours"
    /\ GoTo(r, "create")
    /\ UNCHANGED <<phone, account, req, polls, usage>>

pollAgain(r) ==
    /\ pc[r] = "poll"
    /\ account[Num(r)] \in {"none", "ordered"}
    /\ polls[r] < MaxPolls
    /\ polls' = [polls EXCEPT ![r] = @ + 1]
    /\ UNCHANGED <<phone, account, pc, req, usage>>

\* The last round found nothing, or the number is bound elsewhere.
pollThrows(r) ==
    /\ pc[r] = "poll"
    /\ \/ polls[r] = MaxPolls
       \/ account[Num(r)] = "astray"
    /\ End(r)
    /\ UNCHANGED <<phone, account, usage>>

\* Mutant: the row is upserted, so the second request takes the number over.
create_Upsert(r) ==
    /\ pc[r] = "create"
    /\ phone' = [phone EXCEPT ![Num(r)] =
           [status |-> "ACTIVE", owner |-> req[r].ws, campaign |-> NULL]]
    /\ GoTo(r, "usage")
    /\ UNCHANGED <<account, req, polls, usage>>

create(r) ==
    /\ pc[r] = "create"
    /\ ~Stored(Num(r))
    /\ phone' = [phone EXCEPT ![Num(r)] =
           [status |-> "ACTIVE", owner |-> req[r].ws, campaign |-> NULL]]
    /\ GoTo(r, "usage")
    /\ UNCHANGED <<account, req, polls, usage>>

\* Mutant: the conflict is caught and the request goes on.
createThrows_GoesOn(r) ==
    /\ pc[r] = "create"
    /\ GoTo(r, "usage")
    /\ UNCHANGED <<phone, account, req, polls, usage>>

\* phone_number is unique, so the slower of two requests fails here; the
\* statement may fail for other reasons too.  The number stays bought.
createThrows(r) ==
    /\ pc[r] = "create"
    /\ End(r)
    /\ UNCHANGED <<phone, account, usage>>

recordNumber(r) ==
    /\ pc[r] = "usage"
    /\ recordUsage(Usage("PHONE_NUMBER", Num(r), req[r].ws, 1))
    /\ End(r)
    /\ UNCHANGED <<phone, account>>

\* The request fails although the number is bought and stored.
recordNumberThrows(r) ==
    /\ pc[r] = "usage"
    /\ End(r)
    /\ UNCHANGED <<phone, account, usage>>

provisionNumber(r) ==
    \/ numberOrder(r) \/ numberOrderThrows(r)
    \/ pollFound(r) \/ pollAgain(r) \/ pollThrows(r)
    \/ create(r) \/ createThrows(r)
    \/ recordNumber(r) \/ recordNumberThrows(r)

-----------------------------------------------------------------------------
(* The other operations on a stored number.                                *)

\* Soft delete: the provider keeps the number, and the row its workspace.
releaseNumber(w, n) ==
    /\ Stored(n)
    /\ phone[n].owner = w
    /\ phone' = [phone EXCEPT ![n].status = "RELEASED"]
    /\ UNCHANGED <<account, pc, req, polls, usage>>

assignPhoneNumber(w, c, n) ==
    /\ CampaignOwner[c] = w
    /\ Stored(n)
    /\ phone[n].owner = w
    /\ phone' = [phone EXCEPT ![n].campaign = c]
    /\ UNCHANGED <<account, pc, req, polls, usage>>

\* The provider delivers an order, on our connection or not.
Delivered(n) ==
    /\ account[n] = "ordered"
    /\ account' \in {[account EXCEPT ![n] = "ours"],
                     [account EXCEPT ![n] = "astray"]}
    /\ UNCHANGED <<phone, pc, req, polls, usage>>

NumbersNext ==
    \/ \E r \in Requests :
          \/ \E w \in Workspaces, n \in Numbers : find(r, w, n)
          \/ provisionNumber(r)
    \/ \E n \in Numbers :
          \/ Delivered(n)
          \/ \E w \in Workspaces :
                \/ releaseNumber(w, n)
                \/ \E c \in Campaigns : assignPhoneNumber(w, c, n)

\* The process ends: the requests in flight are gone, what they did is not.
NumbersRestart ==
    /\ pc' = [r \in Requests |-> "idle"]
    /\ req' = [r \in Requests |-> NoRequest]
    /\ polls' = [r \in Requests |-> 0]
    /\ UNCHANGED <<phone, account>>

-----------------------------------------------------------------------------
(* What the component promises.                                            *)

\* A stored number is one our account holds on our connection, whatever
\* other requests and refused or lost orders did to that number meanwhile
\* (TelnyxProvisioningService.provisionNumber before phoneNumber.create).
StoredIsOurs == \A n \in Numbers : Stored(n) => account[n] = "ours"

\* A number routes to a campaign of the workspace that owns it
\* (CampaignsService.assignPhoneNumber).
CampaignOfOwner ==
    \A n \in Numbers :
        phone[n].campaign # NULL =>
            CampaignOwner[phone[n].campaign] = phone[n].owner

\* Two workspaces that provision one number at once never trade it: the one
\* that stored it keeps it, released or not ("No number is automatically
\* released", phone-numbers.service.ts).
OwnerKept ==
    [][\A n \in Numbers :
          Stored(n) => /\ phone'[n].owner = phone[n].owner
                       /\ phone[n].status = "RELEASED" =>
                              phone'[n].status = "RELEASED"]_numberVars
=============================================================================
