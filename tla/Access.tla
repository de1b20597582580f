------------------------------ MODULE Access ------------------------------
(***************************************************************************)
(* Who may do what: the controllers' routes, JwtAuthGuard and              *)
(* ApiKeyAuthGuard, WorkspaceRolesGuard, and the services whose rows the   *)
(* answer depends on (members, API keys, campaigns and their buyers).      *)
(*                                                                         *)
(* A request reads the key, then the role, then runs its handler: three    *)
(* awaits, and what the guards read may have changed when the handler      *)
(* runs.  No statement of the program moves a campaign or a buyer to       *)
(* another workspace, so that each handler is one step.                    *)
(***************************************************************************)
EXTENDS Naturals

CONSTANTS
    Users, Workspaces, Keys, Campaigns, Buyers, Priorities,
    Owner,      \* the workspace of each campaign and buyer
    Requests,   \* requests that may be in flight at once
    MaxSaves    \* writes counted for each list

NULL == "null"

ASSUME AccessAssumption ==
    /\ Owner \in [Campaigns \cup Buyers -> Workspaces]
    /\ NULL \notin Users \cup Workspaces \cup Keys
    /\ MaxSaves \in Nat

VARIABLES
    workspaces,       \* the workspaces there are
    role,             \* workspace_members: the role of each user
    key,              \* api_keys
    campaignBuyers,   \* campaign_buyers
    saved,            \* how often the rows behind each list were written
    request           \* the requests in flight

tables == <<workspaces, role, key, campaignBuyers, saved>>
accessVars == <<workspaces, role, key, campaignBuyers, saved, request>>

-----------------------------------------------------------------------------
(* The routes: how a caller is authenticated and which roles are admitted. *)

Role == {"OWNER", "ADMIN", "MEMBER", "VIEWER"}
Managers == {"OWNER", "ADMIN"}

Routes(auth, ops, roles) ==
    {[auth |-> auth, op |-> op, roles |-> roles] : op \in ops}

\* WorkspaceRolesGuard does not stand before these.
Unguarded == {"createWorkspace", "getWorkspaces"}

WorkspacesController ==
    Routes("jwt", Unguarded, {NULL}) \cup
    Routes("jwt", {"getWorkspace", "getMembers"}, Role) \cup
    Routes("jwt", {"updateSettings", "removeMember"}, Managers)
ApiKeysController ==
    Routes("jwt", {"listKeys", "createKey", "revokeKey"}, Managers)
CampaignsController ==
    Routes("jwt", {"listCampaigns", "getCampaign", "createCampaign",
                   "assignPhoneNumber", "addBuyer"}, Managers)
BuyersController ==
    Routes("jwt", {"listBuyers", "getBuyer", "createBuyer"}, Managers)
BlockedCallersController ==
    Routes("jwt", {"listBlockedCallers", "blockCaller", "unblockCaller"},
           Managers)
PhoneNumbersController ==
    Routes("jwt", {"listNumbers"}, Role) \cup
    Routes("jwt", {"searchNumbers", "provisionNumber", "updateNumber",
                   "releaseNumber"}, Managers)
WebhooksController ==
    Routes("jwt", {"listWebhooks", "createWebhook", "deleteWebhook"}, Managers)
BillingController ==
    Routes("jwt", {"getBillingState"}, Role) \cup
    Routes("jwt", {"createCheckout", "createPortal"}, Managers)
\* No @RequireWorkspaceRoles: any member.
CallsController == Routes("jwt", {"getCalls", "getMetrics", "getCallDetail"}, Role)

RecordingsController == Routes("jwt", {"getRecordingUrl"}, Role)

PublicWorkspacesController == Routes("key", {"getWorkspace"}, Role)
PublicCampaignsController ==
    Routes("key", {"listCampaigns", "getCampaign"}, Role) \cup
    Routes("key", {"createCampaign"}, Managers)
PublicBuyersController ==
    Routes("key", {"listBuyers", "getBuyer"}, Role) \cup
    Routes("key", {"createBuyer"}, Managers)
PublicBlockedNumbersController ==
    Routes("key", {"listBlockedCallers"}, Role) \cup
    Routes("key", {"blockCaller", "unblockCaller"}, Managers)
PublicPhoneNumbersController ==
    Routes("key", {"listNumbers"}, Role) \cup
    Routes("key", {"searchNumbers", "provisionNumber", "updateNumber",
                   "releaseNumber"}, Managers)
PublicCallsController == Routes("key", {"getCalls", "getCallDetail"}, Role)
PublicRecordingsController ==
    Routes("key", {"listRecordings", "getRecording"}, Role)
PublicBillingController == Routes("key", {"getBillingState"}, Managers)
PublicUsageController == Routes("key", {"getUsage"}, Managers)

AllRoutes ==
    UNION {WorkspacesController, ApiKeysController, CampaignsController,
           BuyersController, BlockedCallersController, PhoneNumbersController,
           WebhooksController, BillingController, CallsController,
           RecordingsController,
           PublicWorkspacesController, PublicCampaignsController,
           PublicBuyersController, PublicBlockedNumbersController,
           PublicPhoneNumbersController, PublicCallsController,
           PublicRecordingsController, PublicBillingController,
           PublicUsageController}

Ops == {r.op : r \in AllRoutes}

Admitted ==
    [auth \in {"jwt", "key"} |->
        [op \in Ops |->
            UNION {r.roles : r \in {s \in AllRoutes : s.auth = auth /\ s.op = op}}]]

-----------------------------------------------------------------------------
(* The rows.  What a list shows is told apart by how often it was written. *)

Lists == {"listCampaigns", "listBuyers", "listBlockedCallers", "listNumbers",
          "listWebhooks", "listKeys", "getMembers", "getWorkspace"}

\* The writes of the services that store, change or delete one row of the
\* workspace of the URL, found by that workspace and its identifier.
CampaignsService == {"createCampaign", "assignPhoneNumber"}
BuyersService == {"createBuyer"}
BlockedCallersService == {"blockCaller", "unblockCaller"}
PhoneNumbersService == {"provisionNumber", "updateNumber", "releaseNumber"}
WebhooksService == {"createWebhook", "deleteWebhook"}
WorkspacesService == {"updateSettings"}

RowWrites == UNION {CampaignsService, BuyersService, BlockedCallersService,
                    PhoneNumbersService, WebhooksService, WorkspacesService}
Writes == RowWrites \cup {"addBuyer", "createKey", "revokeKey", "removeMember"}

\* The list a write shows in.
ShownBy ==
    [op \in Writes |->
        CASE op \in {"createCampaign", "addBuyer"} -> "listCampaigns"
          [] op = "createBuyer" -> "listBuyers"
          [] op \in {"blockCaller", "unblockCaller"} -> "listBlockedCallers"
          [] op \in {"createWebhook", "deleteWebhook"} -> "listWebhooks"
          [] op \in {"createKey", "revokeKey"} -> "listKeys"
          [] op = "removeMember" -> "getMembers"
          [] op = "updateSettings" -> "getWorkspace"
          [] OTHER -> "listNumbers"]

CampaignBuyer == [campaign : Campaigns, buyer : Buyers, priority : Priorities]

KeyRow == [ws : Workspaces, user : Users, revoked : BOOLEAN]
NoKey == [ws |-> NULL, user |-> NULL, revoked |-> FALSE]

\* An answer: the count of its list and, for getWorkspaces, the user's roles.
Roles == [Workspaces -> Role \cup {NULL}]
NoRoles == [w \in Workspaces |-> NULL]
Reply == [ok : BOOLEAN, count : 0..MaxSaves, roles : Roles]
NoReply == [ok |-> FALSE, count |-> 0, roles |-> NoRoles]

\* A request says nothing, a user, a key or a campaign, a buyer and a
\* priority, as its operation needs.
Nothing == << >>
Says == {Nothing} \cup {<<u>> : u \in Users} \cup {<<k>> : k \in Keys}
        \cup (Campaigns \X Buyers \X Priorities)
SaysOf(op) ==
    CASE op = "removeMember" -> {<<u>> : u \in Users}
      [] op = "revokeKey" -> {<<k>> : k \in Keys}
      [] op = "addBuyer" -> Campaigns \X Buyers \X Priorities
      [] OTHER -> {Nothing}

Free == [step |-> "free", op |-> NULL, ws |-> NULL, user |-> NULL,
         key |-> NULL, says |-> Nothing, role |-> NULL, reply |-> NoReply]

Request == [step : {"apiKey", "roles", "handle", "answered"},
            op : Ops, ws : Workspaces \cup {NULL},
            user : Users \cup {NULL}, key : Keys \cup {NULL},
            says : Says, role : Role \cup {NULL}, reply : Reply]

AccessTypeOK ==
    /\ workspaces \subseteq Workspaces
    /\ role \in [Workspaces -> [Users -> Role \cup {NULL}]]
    /\ key \in [Keys -> KeyRow \cup {NoKey}]
    /\ campaignBuyers \subseteq CampaignBuyer
    /\ saved \in [Workspaces -> [Lists -> 0..MaxSaves]]
    /\ request \in [Requests -> Request \cup {Free}]

AccessInit ==
    /\ workspaces \in SUBSET Workspaces
    /\ role \in [Workspaces -> [Users -> Role \cup {NULL}]]
    /\ \A w \in Workspaces \ workspaces, u \in Users : role[w][u] = NULL
    /\ key = [k \in Keys |-> NoKey]
    /\ campaignBuyers = {}
    /\ saved = [w \in Workspaces |-> [l \in Lists |-> 0]]
    /\ request = [r \in Requests |-> Free]

-----------------------------------------------------------------------------
(* The guards.                                                             *)

Auth(r) == IF request[r].key = NULL THEN "jwt" ELSE "key"

\* JwtAuthGuard and JwtStrategy read no row: the user is the token's subject.
FromUser(u, w, op, says) ==
    [Free EXCEPT !.step = IF op \in Unguarded THEN "handle" ELSE "roles",
                 !.op = op, !.ws = w, !.user = u, !.says = says]

jwtRequest(r, u, w, op, says) ==
    /\ request[r] = Free
    /\ says \in SaysOf(op)
    /\ op \in Unguarded <=> w = NULL
    /\ request' = [request EXCEPT ![r] = FromUser(u, w, op, says)]
    /\ UNCHANGED tables

keyRequest(r, k, w, op, says) ==
    /\ request[r] = Free
    /\ says \in SaysOf(op)
    /\ op \notin Unguarded
    /\ key[k] # NoKey
    /\ request' = [request EXCEPT ![r] =
           [Free EXCEPT !.step = "apiKey", !.op = op, !.ws = w, !.key = k,
                        !.says = says]]
    /\ UNCHANGED tables

Answer(r, reply) ==
    request' = [request EXCEPT ![r].step = "answered", ![r].reply = reply]

Refuse(r) == Answer(r, NoReply) /\ UNCHANGED tables

\* A key that was revoked is not found.  last_used_at, which is written without
\* being awaited, is left out: nothing but the list of keys shows it.
validateApiKey(k) == ~key[k].revoked

\* The request goes on as the user who made the key.
AsKeyUser(r) ==
    /\ request' = [request EXCEPT ![r].step = "roles",
                                  ![r].user = key[request[r].key].user]
    /\ UNCHANGED tables

\* Mutant: the key's workspace is not compared with the requested one.
ApiKeyAuthGuard_AnyWorkspace(r) ==
    /\ request[r].step = "apiKey"
    /\ IF validateApiKey(request[r].key) THEN AsKeyUser(r) ELSE Refuse(r)

ApiKeyAuthGuard(r) ==
    /\ request[r].step = "apiKey"
    /\ IF /\ validateApiKey(request[r].key)
          /\ key[request[r].key].ws = request[r].ws
       THEN AsKeyUser(r)
       ELSE Refuse(r)

\* NULL: not a member.
getUserWorkspaceRole(u, w) == role[w][u]

validateWorkspaceAccess(r) ==
    getUserWorkspaceRole(request[r].user, request[r].ws)
        \in Admitted[Auth(r)][request[r].op]

WorkspaceRolesGuard(r) ==
    /\ request[r].step = "roles"
    /\ IF validateWorkspaceAccess(r)
       THEN /\ request' = [request EXCEPT ![r].step = "handle",
                  ![r].role = getUserWorkspaceRole(request[r].user, request[r].ws)]
            /\ UNCHANGED tables
       ELSE Refuse(r)

-----------------------------------------------------------------------------
(* The handlers.                                                           *)

Done(r, count) == Answer(r, [NoReply EXCEPT !.ok = TRUE, !.count = count])

\* The statement of a write: bounded by MaxSaves.
Save(r) ==
    LET w == request[r].ws
        l == ShownBy[request[r].op]
    IN  /\ saved[w][l] < MaxSaves
        /\ saved' = [saved EXCEPT ![w][l] = @ + 1]
        /\ Done(r, saved[w][l] + 1)

\* One transaction: the workspace and its creator as its owner.
createWorkspace(r) ==
    /\ request[r].op = "createWorkspace"
    /\ \E w \in Workspaces \ workspaces :
          /\ workspaces' = workspaces \cup {w}
          /\ role' = [role EXCEPT ![w][request[r].user] = "OWNER"]
    /\ Done(r, 0)
    /\ UNCHANGED <<key, campaignBuyers, saved>>

getUserWorkspaces(r) ==
    /\ request[r].op = "getWorkspaces"
    /\ Answer(r, [NoReply EXCEPT !.ok = TRUE,
                      !.roles = [w \in Workspaces |->
                                    role[w][request[r].user]]])
    /\ UNCHANGED tables

\* Any member may be removed, the last owner and oneself included.
removeMember(r) ==
    LET w == request[r].ws
        u == request[r].says[1]
    IN  /\ request[r].op = "removeMember"
        /\ role[w][u] # NULL
        /\ role' = [role EXCEPT ![w][u] = NULL]
        /\ Save(r)
        /\ UNCHANGED <<workspaces, key, campaignBuyers>>

createApiKey(r) ==
    /\ request[r].op = "createKey"
    /\ \E k \in Keys :
          /\ key[k] = NoKey
          /\ key' = [key EXCEPT ![k] = [ws |-> request[r].ws,
                                        user |-> request[r].user,
                                        revoked |-> FALSE]]
    /\ Save(r)
    /\ UNCHANGED <<workspaces, role, campaignBuyers>>

\* Mutant: the key is looked up by its id alone.
revokeApiKey_AnyWorkspace(r) ==
    LET k == request[r].says[1] IN
    /\ request[r].op = "revokeKey"
    /\ key[k] # NoKey
    /\ key' = [key EXCEPT ![k].revoked = TRUE]
    /\ Save(r)
    /\ UNCHANGED <<workspaces, role, campaignBuyers>>

revokeApiKey(r) ==
    LET k == request[r].says[1] IN
    /\ request[r].op = "revokeKey"
    /\ key[k].ws = request[r].ws
    /\ key' = [key EXCEPT ![k].revoked = TRUE]
    /\ Save(r)
    /\ UNCHANGED <<workspaces, role, campaignBuyers>>

CampaignBuyerOf(r) ==
    [campaign |-> request[r].says[1], buyer |-> request[r].says[2],
     priority |-> request[r].says[3]]

\* @@unique([campaign_id, priority]): a buyer may be there twice.
Conflicts(b, c) == b.campaign = c.campaign /\ b.priority = c.priority

\* Mutant: the buyer is looked up by its id alone.
addBuyerToCampaign_AnyBuyer(r) ==
    LET b == CampaignBuyerOf(r) IN
    /\ request[r].op = "addBuyer"
    /\ Owner[b.campaign] = request[r].ws
    /\ \A c \in campaignBuyers : ~Conflicts(b, c)
    /\ campaignBuyers' = campaignBuyers \cup {b}
    /\ Save(r)
    /\ UNCHANGED <<workspaces, role, key>>

addBuyerToCampaign(r) ==
    LET b == CampaignBuyerOf(r) IN
    /\ request[r].op = "addBuyer"
    /\ Owner[b.campaign] = request[r].ws
    /\ Owner[b.buyer] = request[r].ws
    /\ \A c \in campaignBuyers : ~Conflicts(b, c)
    /\ campaignBuyers' = campaignBuyers \cup {b}
    /\ Save(r)
    /\ UNCHANGED <<workspaces, role, key>>

\* The other writes store a row under the workspace of the URL.
writeRow(r) ==
    /\ request[r].op \in RowWrites
    /\ Save(r)
    /\ UNCHANGED <<workspaces, role, key, campaignBuyers>>

\* The reads answer with rows of the workspace of the URL; checkouts and
\* portals are in Billing.
readRows(r) ==
    /\ request[r].op \notin Writes \cup Unguarded
    /\ Done(r, IF request[r].op \in Lists
               THEN saved[request[r].ws][request[r].op] ELSE 0)
    /\ UNCHANGED tables

\* Nothing is found, a constraint is violated, or the database fails.
handlerThrows(r) == Refuse(r)

Handle(r) ==
    /\ request[r].step = "handle"
    /\ \/ createWorkspace(r) \/ getUserWorkspaces(r) \/ removeMember(r)
       \/ createApiKey(r) \/ revokeApiKey(r) \/ addBuyerToCampaign(r)
       \/ writeRow(r) \/ readRows(r) \/ handlerThrows(r)

Serve(r) == ApiKeyAuthGuard(r) \/ WorkspaceRolesGuard(r) \/ Handle(r)

-----------------------------------------------------------------------------
(* Outside the API.                                                        *)

\* No route invites a member or changes a role: it is done in the database.
MembershipChanges(w, u, as) ==
    /\ w \in workspaces
    /\ role' = [role EXCEPT ![w][u] = as]
    /\ UNCHANGED <<workspaces, key, campaignBuyers, saved, request>>

\* The client takes the answer.
Receive(r) ==
    /\ request[r].step = "answered"
    /\ request' = [request EXCEPT ![r] = Free]
    /\ UNCHANGED tables

ClientRequests(r) ==
    \E op \in Ops, w \in Workspaces \cup {NULL}, says \in Says :
        \/ \E u \in Users : jwtRequest(r, u, w, op, says)
        \/ w # NULL /\ \E k \in Keys : keyRequest(r, k, w, op, says)

AccessNext ==
    \/ \E r \in Requests : ClientRequests(r) \/ Serve(r) \/ Receive(r)
    \/ \E w \in Workspaces, u \in Users, as \in Role : MembershipChanges(w, u, as)

AccessSpec == AccessInit /\ [][AccessNext]_accessVars

-----------------------------------------------------------------------------
(* What the component promises.                                            *)

\* A handler runs for a role its route admits; behind an API key it runs in
\* the key's workspace as the user who made it, so that a key is worth no
\* more than its maker, and nothing once the maker is removed
\* (ApiKeyAuthGuard, "Tenant Isolation Check"; WorkspaceRolesGuard).
RequestIsEntitled ==
    \A r \in Requests :
        request[r].step = "handle" =>
            /\ request[r].role \in Admitted[Auth(r)][request[r].op]
            /\ request[r].key # NULL =>
                   /\ key[request[r].key].ws = request[r].ws
                   /\ key[request[r].key].user = request[r].user

\* Buyers and campaigns are linked within one workspace, whatever identifiers
\* a client combines (CampaignsService.addBuyerToCampaign).
LinksStayInWorkspace ==
    \A b \in campaignBuyers : Owner[b.campaign] = Owner[b.buyer]

\* A workspace's rows, its buyer lists, its keys and its members stay.
Untouched(w) ==
    /\ saved'[w] = saved[w]
    /\ \A b \in CampaignBuyer :
          Owner[b.campaign] = w => (b \in campaignBuyers' <=> b \in campaignBuyers)
    /\ \A k \in Keys : w \in {key[k].ws, key'[k].ws} => key'[k] = key[k]
    /\ \A u \in Users : role'[w][u] = NULL => role[w][u] = NULL

ManagersAct(w) ==
    \E r \in Requests :
        /\ request[r].step = "handle" /\ request'[r].step = "answered"
        /\ request[r].ws = w
        /\ request[r].role \in Managers

\* What belongs to a workspace changes only by a manager's request for that
\* workspace: its rows, its buyer lists, its keys, and who is removed from it.
ChangesAreEntitled ==
    [][\A w \in Workspaces : Untouched(w) \/ ManagersAct(w)]_accessVars
=============================================================================
